---- MODULE Spec2Model ----
(***************************************************************************)
(* A model of the console to-do list manager in src/todo.py: the TodoApp   *)
(* task store (the in-memory list of task dicts), its JSON                 *)
(* backing file, the operations add_task, remove_task, mark_completed,     *)
(* clear_completed, show_stats, view_tasks and view_pending_only, the      *)
(* construction of a new TodoApp on the same file, and main's menu         *)
(* loop.  Spec is the store with a file that can always be written,        *)
(* SpecIO the store with writes that can fail, SpecLoad the store started  *)
(* on any file content, SpecMain the menu loop over the store.             *)
(*                                                                         *)
(* A text (a description, a typed id) is a sequence of characters, and a   *)
(* character is its Unicode code point.  A task is a Python dict: a        *)
(* function from its keys to its values, so a pending task has no          *)
(* "completed_at" key at all; a dict keeps its keys in the order they were *)
(* inserted in, and the function gives that sequence at "key_order".  A    *)
(* timestamp is the second the wall clock shows (the strftime text of that *)
(* second).                                                                *)
(***************************************************************************)
EXTENDS Integers, Sequences, FiniteSets, TLC

VARIABLES
    tasks,      \* self.tasks: the list of task dicts
    file,       \* the backing file self.filename: exists or not, and its text
    now,        \* the second datetime.now() currently returns
    op,         \* the last call made on the store
    arg,        \* the text argument of the last call
    result,     \* the value the last call returned: "True", "False", "None"
    msg,        \* the line the last call printed: its kind and the number in it
    tasks0,     \* self.tasks when the last call was entered
    file0,      \* the backing file when the last call was entered
    tasks_type, \* the Python type of self.tasks: "list", or "int" after a
                \* load of a file that holds a JSON number (tasks is <<>>
                \* then); "none" when the constructor raised: there is no store
    tasks_int,  \* the value of self.tasks when it is an int, 0 otherwise
    disk,       \* how many writes of the file can still fail
    save_error, \* the last call printed "Error saving tasks"
    shown,      \* what the last call listed: the statistics, the two groups
    pc          \* where main's loop is: at the menu, at a prompt, or exited

vars == <<tasks, file, now, op, arg, result, msg, tasks0, file0, tasks_type,
          tasks_int, disk, save_error, shown, pc>>

-----------------------------------------------------------------------------
(* Bounds of the model *)

MaxTasks == 2       \* add_task is not called on a list of MaxTasks tasks
MaxTime == 1        \* the clock shows the seconds 0..MaxTime
MaxWriteFailures == 1   \* at most MaxWriteFailures writes of the file fail

\* The descriptions typed: "", " \t" (blank), "é", and "\té\n" (whitespace
\* around it).
Descriptions == {<<>>, <<32, 9>>, <<233>>, <<9, 233, 10>>}

\* The descriptions given to a store whose writes can fail: "", "é", and
\* "\udcff", a lone surrogate, which UTF-8 cannot encode (input() returns it
\* for the byte 0xff under a C locale).
DescriptionsIO == {<<>>, <<233>>, <<56575>>}

\* The ids typed: "1", a tab and a full-width "２", "0_3", "+99", "x", "",
\* and "1" after the separator U+001C, which str.strip() drops and int()
\* does not.
IdTexts ==
    {<<49>>, <<9, 65298>>, <<48, 95, 51>>, <<43, 57, 57>>, <<120>>, <<>>,
     <<28, 49>>}

-----------------------------------------------------------------------------
(* Python built-ins the store relies on *)

\* The characters str.isspace() is true of: those str.strip() drops.
Whitespace ==
    (9..13) \cup (28..32) \cup {133, 160, 5760} \cup (8192..8202)
        \cup {8232, 8233, 8239, 8287, 12288}

IsSpace(c) == c \in Whitespace

\* The whitespace int() skips around a number: that of str.strip() without
\* the four separators U+001C..U+001F.
IntWhitespace == Whitespace \ (28..31)

\* The digit zero of every script that has decimal digits (Unicode 14, the
\* version of Python 3.11); its nine successors are the digits 1 to 9.
DecimalZeros ==
    {48, 1632, 1776, 1984, 2406, 2534, 2662, 2790, 2918, 3046, 3174, 3302,
     3430, 3558, 3664, 3792, 3872, 4160, 4240, 6112, 6160, 6470, 6608, 6784,
     6800, 6992, 7088, 7232, 7248, 42528, 43216, 43264, 43472, 43504, 43600,
     44016, 65296, 66720, 68912, 69734, 69872, 69942, 70096, 70384, 70736,
     70864, 71248, 71360, 71472, 71904, 72016, 72784, 73040, 73120, 92768,
     92864, 93008, 120782, 120792, 120802, 120812, 120822, 123200, 123632,
     125264, 130032}

\* The decimal digits, each with the digit it stands for.
DigitValues ==
    [c \in UNION {z..(z + 9) : z \in DecimalZeros} |->
        c - (CHOOSE z \in DecimalZeros : c \in z..(z + 9))]

IsDigit(c) == c \in DOMAIN DigitValues

DigitVal(c) == DigitValues[c]

\* The code points UTF-8 cannot encode: the surrogates.
Surrogates == 55296..57343

\* The text s without the characters of chars it begins with.
RECURSIVE DropLeft(_, _)
DropLeft(s, chars) ==
    IF Len(s) > 0 /\ s[1] \in chars
    THEN DropLeft(SubSeq(s, 2, Len(s)), chars)
    ELSE s

\* The text s without the characters of chars it ends with.
RECURSIVE DropRight(_, _)
DropRight(s, chars) ==
    IF Len(s) > 0 /\ s[Len(s)] \in chars
    THEN DropRight(SubSeq(s, 1, Len(s) - 1), chars)
    ELSE s

lstrip(s) == DropLeft(s, Whitespace)

rstrip(s) == DropRight(s, Whitespace)

\* str.strip(): the text without its leading and trailing whitespace
strip(s) == rstrip(lstrip(s))

\* sys.get_int_max_str_digits(): int() refuses a text of more digits.
MaxStrDigits == 4300

\* The number a text of decimal digits writes: that of its first half,
\* moved left by the length of the second, plus that of the second.
RECURSIVE DigitsValue(_)
DigitsValue(s) ==
    IF Len(s) = 0 THEN 0
    ELSE IF Len(s) = 1 THEN DigitVal(s[1])
    ELSE LET half == Len(s) \div 2
             high == DigitsValue(SubSeq(s, 1, half))
             low == DigitsValue(SubSeq(s, half + 1, Len(s)))
         IN  IF high = 0 THEN low ELSE high * 10 ^ (Len(s) - half) + low

\* A parse that reads a text without digits as 0 instead of raising.
int_lenient(s) ==
    [ok |-> TRUE, value |-> DigitsValue(SelectSeq(s, IsDigit))]

\* int(text): the whitespace around the number is skipped, then come an
\* optional sign ("+" 43, "-" 45) and decimal digits of any script, with
\* single underscores (95) allowed between two digits; anything else, and a
\* number of more than MaxStrDigits digits, raises ValueError (ok = FALSE).
int(s) ==
    LET body == DropRight(DropLeft(s, IntWhitespace), IntWhitespace)
        signed == Len(body) > 0 /\ body[1] \in {43, 45}
        ds == IF signed THEN SubSeq(body, 2, Len(body)) ELSE body
        valid == /\ Len(ds) > 0
                 /\ IsDigit(ds[1])
                 /\ IsDigit(ds[Len(ds)])
                 /\ \A i \in 1..Len(ds) : IsDigit(ds[i]) \/ ds[i] = 95
                 /\ \A i \in 1..(Len(ds) - 1) : ds[i] # 95 \/ ds[i + 1] # 95
                 /\ Len(SelectSeq(ds, IsDigit)) <= MaxStrDigits
        v == DigitsValue(SelectSeq(ds, IsDigit))
    IN  IF valid
        THEN [ok |-> TRUE, value |-> IF signed /\ body[1] = 45 THEN 0 - v ELSE v]
        ELSE [ok |-> FALSE, value |-> 0]

-----------------------------------------------------------------------------
(* The JSON text of the backing file *)

\* The value of a key as JSON writes it: the id is an int (a number),
\* completed a bool (a literal), the other fields are str (strings).
Encode(key, v) ==
    IF key = "completed" THEN [kind |-> IF v THEN "true" ELSE "false", body |-> 0]
    ELSE IF key = "id" THEN [kind |-> "number", body |-> v]
    ELSE [kind |-> "string", body |-> v]

Decode(j) ==
    IF j.kind = "true" THEN TRUE
    ELSE IF j.kind = "false" THEN FALSE
    ELSE j.body

\* One task dict as a JSON object: its members, key by key, in the order of
\* the dict.
DumpObject(d) ==
    [i \in 1..Len(d["key_order"]) |->
        [key |-> d["key_order"][i],
         value |-> Encode(d["key_order"][i], d[d["key_order"][i]])]]

\* json.dump(self.tasks, ...): the text of a JSON array of objects
json_dump(ts) ==
    [kind |-> "array", items |-> [i \in 1..Len(ts) |-> DumpObject(ts[i])]]

\* The keys of the members of a JSON object, each once, in the order in
\* which they first occur.
RECURSIVE FirstKeys(_)
FirstKeys(members) ==
    IF Len(members) = 0 THEN <<>>
    ELSE LET front == FirstKeys(SubSeq(members, 1, Len(members) - 1))
             k == members[Len(members)].key
         IN  IF \E i \in 1..Len(front) : front[i] = k THEN front
             ELSE Append(front, k)

\* A JSON object read back as a dict: every key with the value of its last
\* member, the keys in the order of their first members.
LoadObject(members) ==
    [k \in {members[i].key : i \in 1..Len(members)} \cup {"key_order"} |->
        IF k = "key_order" THEN FirstKeys(members)
        ELSE LET last == CHOOSE i \in 1..Len(members) :
                             /\ members[i].key = k
                             /\ \A j \in (i + 1)..Len(members) :
                                    members[j].key # k
             IN  Decode(members[last].value)]

\* json.loads(content) of the text of an array
json_loads(text) == [i \in 1..Len(text.items) |-> LoadObject(text.items[i])]

\* The text of a file that holds the JSON number n.
NumberText(n) == [kind |-> "number", items |-> <<>>, value |-> n]

BlankText == [kind |-> "blank", items |-> <<>>]

\* Text that is not JSON, such as an array that is cut short.
GarbageText == [kind |-> "garbage", items |-> <<>>]

\* The content of a file whose bytes are not UTF-8, such as an array cut
\* inside a character of several bytes.
UndecodableBytes == [kind |-> "undecodable", items |-> <<>>]

NoFile == [exists |-> FALSE, text |-> BlankText]

\* An array written by hand, its one object with the members in another
\* order than add_task's: [{"created_at": ..., "completed": true,
\* "description": "a", "id": 1}].
HandWrittenText ==
    [kind |-> "array",
     items |-> << <<[key |-> "created_at", value |-> Encode("created_at", 0)],
                    [key |-> "completed", value |-> Encode("completed", TRUE)],
                    [key |-> "description",
                     value |-> Encode("description", <<97>>)],
                    [key |-> "id", value |-> Encode("id", 1)]>> >>]

-----------------------------------------------------------------------------
(* TodoApp *)

\* load_tasks: the list a store starts with, given the backing file (the
\* list __init__ assigned when the file holds no list)
load_tasks(f) ==
    IF f.exists
    THEN IF f.text.kind = "blank" THEN <<>>
         ELSE IF f.text.kind = "array" THEN json_loads(f.text)
         ELSE <<>>
    ELSE <<>>

\* load_tasks raises UnicodeDecodeError, which it does not catch, when the
\* bytes of the file are not UTF-8.
LoadRaises(f) == f.exists /\ f.text.kind = "undecodable"

\* load_tasks prints its warning when the text of the file is not JSON.
LoadWarns(f) == f.exists /\ f.text.kind = "garbage"

\* The Python type of what load_tasks leaves in self.tasks: json.loads of a
\* JSON number gives an int, and no exception; "none" when load_tasks raises
\* out of the constructor and no store comes to be.
LoadedType(f) ==
    IF f.exists /\ f.text.kind = "number" THEN "int"
    ELSE IF LoadRaises(f) THEN "none"
    ELSE "list"

\* The int json.loads gives for a file that holds a JSON number.
LoadedInt(f) == IF f.exists /\ f.text.kind = "number" THEN f.text.value ELSE 0

\* Every description of ts can be written as UTF-8.
Encodable(ts) ==
    \A i \in 1..Len(ts) : \A j \in 1..Len(ts[i]["description"]) :
        ts[i]["description"][j] \notin Surrogates

\* The write of ts reaches a character UTF-8 writes as several bytes: some
\* description has one, and neither it nor a description before it has a
\* character that cannot be encoded (the encoder raises at the whole
\* description, and nothing of it or after it is written).
MultiByte(ts) ==
    \E i \in 1..Len(ts) :
        /\ \E j \in 1..Len(ts[i]["description"]) :
                ts[i]["description"][j] > 127
        /\ \A k \in 1..i : \A j \in 1..Len(ts[k]["description"]) :
                ts[k]["description"][j] \notin Surrogates

\* save_tasks: the backing file after the list ts is written to it with no
\* fault of the disk: the array, or, when a description cannot be encoded,
\* the array cut short before that description.
save_tasks(ts) ==
    [exists |-> TRUE, text |-> IF Encodable(ts) THEN json_dump(ts) ELSE GarbageText]

\* The backing file after a write of ts that the disk failed: open() failed
\* and the file is as it was, or the dump failed and the file is left empty
\* or cut short, inside a character when it is cut inside one of several
\* bytes.
FailedWrite(f, ts) ==
    {f, [exists |-> TRUE, text |-> BlankText],
        [exists |-> TRUE, text |-> GarbageText]}
    \cup IF MultiByte(ts) THEN {[exists |-> TRUE, text |-> UndecodableBytes]}
         ELSE {}

\* save_tasks as the callers see it: the write, or the error it prints when
\* the write raises, for a description that cannot be encoded or a fault of
\* the disk; it never raises itself.
Write(ts) ==
    \/ /\ file' = save_tasks(ts)
       /\ disk' = disk
       /\ save_error' = ~Encodable(ts)
    \/ /\ disk > 0
       /\ file' \in FailedWrite(file, ts)
       /\ disk' = disk - 1
       /\ save_error' = TRUE

\* A call, or a branch of it, that does not reach save_tasks.
NoWrite ==
    /\ UNCHANGED <<file, disk>>
    /\ save_error' = FALSE

\* A new task numbered from 0: the id is the length, not the length plus 1.
NewTask_id_len(n, description, t) ==
    [id |-> n, description |-> description, completed |-> FALSE,
     created_at |-> t,
     key_order |-> <<"id", "description", "completed", "created_at">>]

\* The dict add_task builds.
NewTask(n, description, t) ==
    [id |-> n + 1, description |-> description, completed |-> FALSE,
     created_at |-> t,
     key_order |-> <<"id", "description", "completed", "created_at">>]

\* d[key] = v: the dict with v at the key; a key it did not have comes last
\* in its order.
SetItem(d, key, v) ==
    [k \in DOMAIN d \cup {key} |->
        IF k = key THEN v
        ELSE IF k = "key_order" /\ key \notin DOMAIN d
             THEN Append(d["key_order"], key)
             ELSE d[k]]

\* A completion that also stamps the task's creation time anew.
Completed_restamp(task, t) ==
    SetItem(SetItem(SetItem(task, "completed", TRUE), "completed_at", t),
            "created_at", t)

\* A completion that flips the flag instead of setting it.
Completed_toggle(task, t) ==
    SetItem(SetItem(task, "completed", ~task["completed"]), "completed_at", t)

\* The dict after mark_completed's two assignments.
Completed(task, t) ==
    SetItem(SetItem(task, "completed", TRUE), "completed_at", t)

\* A scan that keeps the last match instead of stopping at the first.
FindLast(ts, task_id) ==
    IF \E i \in 1..Len(ts) : ts[i].id = task_id
    THEN CHOOSE i \in 1..Len(ts) :
            /\ ts[i].id = task_id
            /\ \A j \in (i + 1)..Len(ts) : ts[j].id # task_id
    ELSE 0

\* The scan of remove_task and mark_completed: the position of the first task
\* whose id is task_id, 0 when no task has it.
FindFirst(ts, task_id) ==
    IF \E i \in 1..Len(ts) : ts[i].id = task_id
    THEN CHOOSE i \in 1..Len(ts) :
            /\ ts[i].id = task_id
            /\ \A j \in 1..(i - 1) : ts[j].id # task_id
    ELSE 0

\* list.pop(index), for a position counted from 1
Pop(ts, i) == SubSeq(ts, 1, i - 1) \o SubSeq(ts, i + 1, Len(ts))

IsCompleted(task) == task["completed"]
IsPending(task) == ~task["completed"]

Message(kind, n) == [kind |-> kind, num |-> n]

\* What a call lists: the four statistics, the pending and the completed
\* tasks in the order shown, and the two counts of the summary line.
Report(stats, pending, completed, summary) ==
    [stats |-> stats, pending |-> pending, completed |-> completed,
     summary |-> summary]

NoReport == Report(<<>>, <<>>, <<>>, <<>>)

\* What view_tasks lists of the list ts: the pending tasks, the completed
\* ones when asked for, and the summary; nothing of an empty list.
view_tasks_report(ts, show_completed) ==
    IF Len(ts) = 0 THEN NoReport
    ELSE Report(<<>>, SelectSeq(ts, IsPending),
                IF show_completed THEN SelectSeq(ts, IsCompleted) ELSE <<>>,
                <<Len(SelectSeq(ts, IsPending)), Len(SelectSeq(ts, IsCompleted))>>)

\* What view_pending_only lists of the list ts.
view_pending_only_report(ts) == Report(<<>>, SelectSeq(ts, IsPending), <<>>, <<>>)

\* The beginnings of the sequence s.
Prefixes(s) == {SubSeq(s, 1, k) : k \in 0..Len(s)}

\* What a call that lists r has listed when it is cut off before its last
\* line: the statistics line by line, the pending tasks one by one, then
\* the completed ones, and no summary.
Partial(r) ==
    {Report(s, <<>>, <<>>, <<>>) : s \in Prefixes(r.stats)}
    \cup {Report(r.stats, p, <<>>, <<>>) : p \in Prefixes(r.pending)}
    \cup {Report(r.stats, r.pending, c, <<>>) : c \in Prefixes(r.completed)}

\* The state after TodoApp(filename) on the backing file f, main at its menu
\* (or ended by the exception the constructor raised), when faults writes of
\* the file are going to fail.
Started(f, faults) ==
    /\ file = f
    /\ tasks = load_tasks(f)
    /\ tasks_type = LoadedType(f)
    /\ tasks_int = LoadedInt(f)
    /\ now = 0
    /\ op = "init"
    /\ arg = <<>>
    /\ result = IF LoadRaises(f) THEN "UnicodeDecodeError" ELSE "None"
    /\ msg = Message(IF LoadWarns(f) THEN "load_warning" ELSE "none", 0)
    /\ tasks0 = tasks
    /\ file0 = file
    /\ disk = faults
    /\ save_error = FALSE
    /\ shown = NoReport
    /\ pc = IF LoadRaises(f) THEN "exited" ELSE "menu"

Init ==
    \E f \in {NoFile,
              [exists |-> TRUE, text |-> BlankText],
              [exists |-> TRUE, text |-> GarbageText]} : Started(f, 0)

\* add_task testing the description as typed, not stripped, for emptiness.
add_task_unstripped_check(task_description) ==
    /\ op' = "add_task"
    /\ tasks0' = tasks
    /\ file0' = file
    /\ shown' = NoReport
    /\ UNCHANGED <<tasks_type, tasks_int>>
    /\ arg' = task_description
    /\ now' = now
    /\ IF Len(task_description) = 0
       THEN /\ msg' = Message("empty_description", 0)
            /\ result' = "False"
            /\ UNCHANGED tasks
            /\ NoWrite
       ELSE /\ Len(tasks) < MaxTasks
            /\ tasks' = Append(tasks,
                               NewTask(Len(tasks), strip(task_description), now))
            /\ Write(tasks')
            /\ msg' = Message("added", 0)
            /\ result' = "True"

\* add_task undoing the append and reporting failure when the save failed.
add_task_rollback(task_description) ==
    /\ op' = "add_task"
    /\ tasks0' = tasks
    /\ file0' = file
    /\ shown' = NoReport
    /\ UNCHANGED <<tasks_type, tasks_int>>
    /\ arg' = task_description
    /\ now' = now
    /\ IF Len(strip(task_description)) = 0
       THEN /\ msg' = Message("empty_description", 0)
            /\ result' = "False"
            /\ UNCHANGED tasks
            /\ NoWrite
       ELSE /\ Len(tasks) < MaxTasks
            /\ Write(Append(tasks, NewTask(Len(tasks),
                                           strip(task_description), now)))
            /\ tasks' = IF save_error' THEN tasks
                        ELSE Append(tasks, NewTask(Len(tasks),
                                                   strip(task_description), now))
            /\ msg' = Message(IF save_error' THEN "save_failed" ELSE "added", 0)
            /\ result' = IF save_error' THEN "False" ELSE "True"

add_task(task_description) ==
    /\ op' = "add_task"
    /\ tasks0' = tasks
    /\ file0' = file
    /\ shown' = NoReport
    /\ UNCHANGED <<tasks_type, tasks_int>>
    /\ arg' = task_description
    /\ now' = now
    /\ IF Len(strip(task_description)) = 0
       THEN /\ msg' = Message("empty_description", 0)
            /\ result' = "False"
            /\ UNCHANGED tasks
            /\ NoWrite
       ELSE /\ Len(tasks) < MaxTasks
            /\ tasks' = Append(tasks,
                               NewTask(Len(tasks), strip(task_description), now))
            /\ Write(tasks')
            /\ msg' = Message("added", 0)
            /\ result' = "True"

\* remove_task popping with no index (the last task) when the scan found none.
remove_task_pop_default(task_id) ==
    /\ op' = "remove_task"
    /\ tasks0' = tasks
    /\ file0' = file
    /\ shown' = NoReport
    /\ UNCHANGED <<tasks_type, tasks_int>>
    /\ arg' = task_id
    /\ now' = now
    /\ IF ~int(task_id).ok
       THEN /\ msg' = Message("invalid_id", 0)
            /\ result' = "False"
            /\ UNCHANGED tasks
            /\ NoWrite
       ELSE LET n == int(task_id).value
                found == FindFirst(tasks, n)
                task_index == IF found # 0 THEN found ELSE Len(tasks)
            IN  IF task_index # 0
                THEN /\ tasks' = Pop(tasks, task_index)
                     /\ Write(tasks')
                     /\ msg' = Message("removed", 0)
                     /\ result' = "True"
                ELSE /\ msg' = Message("not_found", n)
                     /\ result' = "False"
                     /\ UNCHANGED tasks
                     /\ NoWrite

remove_task(task_id) ==
    /\ op' = "remove_task"
    /\ tasks0' = tasks
    /\ file0' = file
    /\ shown' = NoReport
    /\ UNCHANGED <<tasks_type, tasks_int>>
    /\ arg' = task_id
    /\ now' = now
    /\ IF ~int(task_id).ok
       THEN /\ msg' = Message("invalid_id", 0)
            /\ result' = "False"
            /\ UNCHANGED tasks
            /\ NoWrite
       ELSE LET n == int(task_id).value
                task_index == FindFirst(tasks, n)
            IN  IF task_index # 0
                THEN /\ tasks' = Pop(tasks, task_index)
                     /\ Write(tasks')
                     /\ msg' = Message("removed", 0)
                     /\ result' = "True"
                ELSE /\ msg' = Message("not_found", n)
                     /\ result' = "False"
                     /\ UNCHANGED tasks
                     /\ NoWrite

\* mark_completed refusing a task that is completed already.
mark_completed_once(task_id) ==
    /\ op' = "mark_completed"
    /\ tasks0' = tasks
    /\ file0' = file
    /\ shown' = NoReport
    /\ UNCHANGED <<tasks_type, tasks_int>>
    /\ arg' = task_id
    /\ now' = now
    /\ IF ~int(task_id).ok
       THEN /\ msg' = Message("invalid_id", 0)
            /\ result' = "False"
            /\ UNCHANGED tasks
            /\ NoWrite
       ELSE LET n == int(task_id).value
                i == FindFirst(tasks, n)
            IN  IF i # 0 /\ ~tasks[i]["completed"]
                THEN /\ tasks' = [tasks EXCEPT ![i] = Completed(tasks[i], now)]
                     /\ Write(tasks')
                     /\ msg' = Message("completed", 0)
                     /\ result' = "True"
                ELSE /\ msg' = Message("not_found", n)
                     /\ result' = "False"
                     /\ UNCHANGED tasks
                     /\ NoWrite

mark_completed(task_id) ==
    /\ op' = "mark_completed"
    /\ tasks0' = tasks
    /\ file0' = file
    /\ shown' = NoReport
    /\ UNCHANGED <<tasks_type, tasks_int>>
    /\ arg' = task_id
    /\ now' = now
    /\ IF ~int(task_id).ok
       THEN /\ msg' = Message("invalid_id", 0)
            /\ result' = "False"
            /\ UNCHANGED tasks
            /\ NoWrite
       ELSE LET n == int(task_id).value
                i == FindFirst(tasks, n)
            IN  IF i # 0
                THEN /\ tasks' = [tasks EXCEPT ![i] = Completed(tasks[i], now)]
                     /\ Write(tasks')
                     /\ msg' = Message("completed", 0)
                     /\ result' = "True"
                ELSE /\ msg' = Message("not_found", n)
                     /\ result' = "False"
                     /\ UNCHANGED tasks
                     /\ NoWrite

\* clear_completed with the filter the wrong way round.
clear_completed_keeps_completed ==
    /\ op' = "clear_completed"
    /\ tasks0' = tasks
    /\ file0' = file
    /\ shown' = NoReport
    /\ UNCHANGED <<tasks_type, tasks_int>>
    /\ arg' = <<>>
    /\ now' = now
    /\ result' = "None"
    /\ LET completed_count == Len(SelectSeq(tasks, IsCompleted))
       IN  IF completed_count = 0
           THEN /\ msg' = Message("nothing_to_clear", 0)
                /\ UNCHANGED tasks
                /\ NoWrite
           ELSE /\ tasks' = SelectSeq(tasks, IsCompleted)
                /\ Write(tasks')
                /\ msg' = Message("cleared", completed_count)

\* clear_completed without the save after the list is filtered.
clear_completed_nosave ==
    /\ op' = "clear_completed"
    /\ tasks0' = tasks
    /\ file0' = file
    /\ shown' = NoReport
    /\ UNCHANGED <<tasks_type, tasks_int>>
    /\ arg' = <<>>
    /\ now' = now
    /\ result' = "None"
    /\ LET completed_count == Len(SelectSeq(tasks, IsCompleted))
       IN  IF completed_count = 0
           THEN /\ msg' = Message("nothing_to_clear", 0)
                /\ UNCHANGED tasks
                /\ NoWrite
           ELSE /\ tasks' = SelectSeq(tasks, IsPending)
                /\ msg' = Message("cleared", completed_count)
                /\ NoWrite

clear_completed ==
    /\ op' = "clear_completed"
    /\ tasks0' = tasks
    /\ file0' = file
    /\ shown' = NoReport
    /\ UNCHANGED <<tasks_type, tasks_int>>
    /\ arg' = <<>>
    /\ now' = now
    /\ result' = "None"
    /\ LET completed_count == Len(SelectSeq(tasks, IsCompleted))
       IN  IF completed_count = 0
           THEN /\ msg' = Message("nothing_to_clear", 0)
                /\ UNCHANGED tasks
                /\ NoWrite
           ELSE /\ tasks' = SelectSeq(tasks, IsPending)
                /\ Write(tasks')
                /\ msg' = Message("cleared", completed_count)

\* The first n binary digits after the point of r / t, for 0 <= r < t.
RECURSIVE DivBits(_, _, _)
DivBits(r, t, n) ==
    IF n = 0 THEN <<>>
    ELSE <<(2 * r) \div t>> \o DivBits((2 * r) % t, t, n - 1)

\* What is left of r / t after its first n binary digits: 0 when they are all.
RECURSIVE DivRest(_, _, _)
DivRest(r, t, n) == IF n = 0 THEN r ELSE DivRest((2 * r) % t, t, n - 1)

\* The place after the point of the first binary digit 1 of r / t, 0 < r < t.
RECURSIVE LeadPlace(_, _)
LeadPlace(r, t) == IF 2 * r >= t THEN 1 ELSE 1 + LeadPlace(2 * r, t)

\* r doubled until its double reaches t.
RECURSIVE LeadRest(_, _)
LeadRest(r, t) == IF 2 * r >= t THEN r ELSE LeadRest(2 * r, t)

\* The number a sequence of binary digits writes, first digit highest.
RECURSIVE BitsValue(_)
BitsValue(b) ==
    IF Len(b) = 0 THEN 0
    ELSE 2 * BitsValue(SubSeq(b, 1, Len(b) - 1)) + b[Len(b)]

\* The binary digits b plus one in the last place, in as many digits; b has
\* a digit 0.
BitsPlusOne(b) ==
    LET p == CHOOSE i \in 1..Len(b) :
                 b[i] = 0 /\ \A j \in (i + 1)..Len(b) : b[j] = 1
    IN  [i \in 1..Len(b) |-> IF i < p THEN b[i] ELSE IF i = p THEN 1 ELSE 0]

\* A double that is not zero: the 53 binary digits of its significand, the
\* first of them 1 and worth 2^exp.
RoundToDouble(b, rest, exp) ==
    LET first == CHOOSE i \in 1..Len(b) : b[i] = 1 /\ \A j \in 1..(i - 1) : b[j] = 0
        e == exp - (first - 1)
        digit(i) == IF first - 1 + i <= Len(b) THEN b[first - 1 + i] ELSE 0
        kept == [i \in 1..53 |-> digit(i)]
        more == rest \/ \E i \in (first + 54)..Len(b) : b[i] = 1
        up == digit(54) = 1 /\ (more \/ kept[53] = 1)
    IN  IF ~up THEN [man |-> kept, exp |-> e]
        ELSE IF \A i \in 1..53 : kept[i] = 1
             THEN [man |-> [i \in 1..53 |-> IF i = 1 THEN 1 ELSE 0], exp |-> e + 1]
             ELSE [man |-> BitsPlusOne(kept), exp |-> e]

\* The binary digits of b times k, lowest first, for a factor k below 128:
\* the digits of b from its place i down, then the seven of the carry.
RECURSIVE TimesLow(_, _, _, _)
TimesLow(b, i, k, carry) ==
    IF i = 0 THEN [j \in 1..7 |-> (carry \div (2 ^ (j - 1))) % 2]
    ELSE <<(b[i] * k + carry) % 2>>
         \o TimesLow(b, i - 1, k, (b[i] * k + carry) \div 2)

\* The Len(b) + 7 binary digits of b times k, highest first.
Times(b, k) ==
    LET low == TimesLow(b, Len(b), k, 0)
    IN  [i \in 1..Len(low) |-> low[Len(low) + 1 - i]]

\* completed / total as a double, for 0 < completed <= total.
DoubleQuotient(completed, total) ==
    IF completed = total
    THEN [man |-> [i \in 1..53 |-> IF i = 1 THEN 1 ELSE 0], exp |-> 0]
    ELSE LET r == LeadRest(completed, total)
         IN  RoundToDouble(DivBits(r, total, 54), DivRest(r, total, 54) # 0,
                           0 - LeadPlace(completed, total))

\* double * 100 as a double.
DoubleTimes100(double) ==
    RoundToDouble(Times(double.man, 100), FALSE, double.exp + 7)

\* A double below 1024 as "%.1f" prints it, in tenths: ten times the double,
\* exactly, rounded to the nearest integer and to the even one when halfway.
TenthsOfDouble(double) ==
    LET b == Times(double.man, 10)
        frac == 52 - double.exp
        whole == IF frac >= Len(b) THEN 0 ELSE BitsValue(SubSeq(b, 1, Len(b) - frac))
        half == frac <= Len(b) /\ b[Len(b) - frac + 1] = 1
        more == \E i \in 1..Len(b) : i > Len(b) - frac + 1 /\ b[i] = 1
    IN  IF half /\ (more \/ whole % 2 = 1) THEN whole + 1 ELSE whole

\* The rate computed with floor division.
RateTenths_floor_div(completed, total) == (completed \div total) * 1000

\* completed / total * 100 as "%.1f" prints it, in tenths of a percent, for
\* 0 <= completed <= total.  The division and the multiplication each round
\* to a double and the print rounds that double to one decimal.  The two
\* roundings move the rate by less than 2^-51 of itself, and a rate that is
\* not halfway between two tenths is at least 1 / (2 * total) of a tenth off
\* the middle: it prints as the nearest tenth.  A rate that is halfway
\* prints as the double falls.
RateTenths(completed, total) ==
    LET q == (1000 * completed) \div total
        r == (1000 * completed) % total
    IN  IF 2 * r > total THEN q + 1
        ELSE IF 2 * r < total THEN q
        ELSE TenthsOfDouble(DoubleTimes100(DoubleQuotient(completed, total)))

\* What show_stats lists of the list ts: total, completed, pending and the
\* rate; nothing of an empty list.
show_stats_report(ts) ==
    IF Len(ts) = 0 THEN NoReport
    ELSE LET total == Len(ts)
             completed == Len(SelectSeq(ts, IsCompleted))
             pending == total - completed
             completion_rate == IF total > 0
                                THEN RateTenths(completed, total) ELSE 0
         IN  Report(<<total, completed, pending, completion_rate>>,
                    <<>>, <<>>, <<>>)

\* show_stats that saves the list after printing.
show_stats_saving ==
    /\ op' = "show_stats"
    /\ tasks0' = tasks
    /\ file0' = file
    /\ UNCHANGED <<tasks_type, tasks_int>>
    /\ arg' = <<>>
    /\ now' = now
    /\ result' = "None"
    /\ UNCHANGED tasks
    /\ Write(tasks)
    /\ msg' = Message(IF Len(tasks) = 0 THEN "no_statistics" ELSE "statistics", 0)
    /\ shown' = show_stats_report(tasks)

show_stats ==
    /\ op' = "show_stats"
    /\ tasks0' = tasks
    /\ file0' = file
    /\ UNCHANGED <<tasks_type, tasks_int>>
    /\ arg' = <<>>
    /\ now' = now
    /\ result' = "None"
    /\ UNCHANGED tasks
    /\ NoWrite
    /\ msg' = Message(IF Len(tasks) = 0 THEN "no_statistics" ELSE "statistics", 0)
    /\ shown' = show_stats_report(tasks)

view_tasks(show_completed) ==
    /\ op' = "view_tasks"
    /\ tasks0' = tasks
    /\ file0' = file
    /\ UNCHANGED <<tasks_type, tasks_int>>
    /\ arg' = <<IF show_completed THEN "True" ELSE "False">>
    /\ now' = now
    /\ result' = "None"
    /\ UNCHANGED tasks
    /\ NoWrite
    /\ msg' = IF Len(tasks) = 0 THEN Message("no_tasks", 0)
              ELSE Message("list", Len(tasks))
    /\ shown' = view_tasks_report(tasks, show_completed)

view_pending_only ==
    /\ op' = "view_pending_only"
    /\ tasks0' = tasks
    /\ file0' = file
    /\ UNCHANGED <<tasks_type, tasks_int>>
    /\ arg' = <<>>
    /\ now' = now
    /\ result' = "None"
    /\ UNCHANGED tasks
    /\ NoWrite
    /\ LET pending_tasks == SelectSeq(tasks, IsPending)
       IN  msg' = IF Len(pending_tasks) = 0 THEN Message("caught_up", 0)
                  ELSE Message("pending", Len(pending_tasks))
    /\ shown' = view_pending_only_report(tasks)

\* save_tasks() called by a caller of the store: the list is written as it
\* is.
save_tasks_call ==
    /\ op' = "save_tasks"
    /\ tasks0' = tasks
    /\ file0' = file
    /\ shown' = NoReport
    /\ UNCHANGED <<tasks_type, tasks_int>>
    /\ arg' = <<>>
    /\ now' = now
    /\ result' = "None"
    /\ msg' = Message("none", 0)
    /\ UNCHANGED tasks
    /\ Write(tasks)

\* TodoApp(filename): a new store is constructed on the same backing file;
\* when load_tasks raises, the constructor raises and there is no store.
Restart ==
    /\ op' = "init"
    /\ tasks0' = tasks
    /\ file0' = file
    /\ shown' = NoReport
    /\ arg' = <<>>
    /\ now' = now
    /\ result' = IF LoadRaises(file) THEN "UnicodeDecodeError" ELSE "None"
    /\ tasks' = load_tasks(file)
    /\ tasks_type' = LoadedType(file)
    /\ tasks_int' = LoadedInt(file)
    /\ msg' = Message(IF LoadWarns(file) THEN "load_warning" ELSE "none", 0)
    /\ NoWrite

\* The wall clock moves on to the next second between two calls, or while
\* main waits for input.
Tick ==
    /\ now < MaxTime
    /\ now' = now + 1
    /\ op' = "idle"
    /\ arg' = <<>>
    /\ result' = "None"
    /\ msg' = Message("none", 0)
    /\ tasks0' = tasks
    /\ file0' = file
    /\ shown' = NoReport
    /\ UNCHANGED <<tasks_type, tasks_int>>
    /\ UNCHANGED tasks
    /\ NoWrite

\* The calls a caller of the store makes, in any order, and the clock.
Next ==
    \/ \E d \in Descriptions : add_task(d) /\ UNCHANGED pc
    \/ \E t \in IdTexts : remove_task(t) /\ UNCHANGED pc
    \/ \E t \in IdTexts : mark_completed(t) /\ UNCHANGED pc
    \/ clear_completed /\ UNCHANGED pc
    \/ show_stats /\ UNCHANGED pc
    \/ \E b \in BOOLEAN : view_tasks(b) /\ UNCHANGED pc
    \/ view_pending_only /\ UNCHANGED pc
    \/ save_tasks_call /\ UNCHANGED pc
    \/ Restart /\ UNCHANGED pc
    \/ Tick /\ UNCHANGED pc

Spec == Init /\ [][Next]_vars

-----------------------------------------------------------------------------
(* The store when writes of the backing file can fail *)

InitIO ==
    \E f \in {NoFile,
              [exists |-> TRUE, text |-> BlankText],
              [exists |-> TRUE, text |-> GarbageText]} :
        Started(f, MaxWriteFailures)

\* One run of the program: the calls that write the file, and show_stats.
NextIO ==
    \/ \E d \in DescriptionsIO : add_task(d) /\ UNCHANGED pc
    \/ \E t \in IdTexts : remove_task(t) /\ UNCHANGED pc
    \/ \E t \in IdTexts : mark_completed(t) /\ UNCHANGED pc
    \/ clear_completed /\ UNCHANGED pc
    \/ show_stats /\ UNCHANGED pc
    \/ save_tasks_call /\ UNCHANGED pc

SpecIO == InitIO /\ [][NextIO]_vars

-----------------------------------------------------------------------------
(* The store started on a backing file that holds a number or other bytes *)

\* The files a store is started on: none, a blank one, one that is not
\* JSON, the numbers 0, 5, 55 and -3, bytes that are not UTF-8, and an array
\* written by hand.  Writes can fail for a store that holds a number.
InitLoad ==
    \/ \E f \in {NoFile,
                 [exists |-> TRUE, text |-> BlankText],
                 [exists |-> TRUE, text |-> GarbageText],
                 [exists |-> TRUE, text |-> UndecodableBytes],
                 [exists |-> TRUE, text |-> HandWrittenText]} : Started(f, 0)
    \/ \E f \in {[exists |-> TRUE, text |-> NumberText(0)],
                 [exists |-> TRUE, text |-> NumberText(5)],
                 [exists |-> TRUE, text |-> NumberText(55)],
                 [exists |-> TRUE, text |-> NumberText(0 - 3)]} :
          \E faults \in 0..MaxWriteFailures : Started(f, faults)

\* A call on a store whose self.tasks is an int: what it returns, or the
\* exception it raises, and the line it prints; it changes nothing.
IntCall(name, text, outcome, kind) ==
    /\ tasks_type = "int"
    /\ op' = name
    /\ arg' = text
    /\ result' = outcome
    /\ msg' = Message(kind, 0)
    /\ tasks0' = tasks
    /\ file0' = file
    /\ shown' = NoReport
    /\ UNCHANGED <<tasks, now, tasks_type, tasks_int>>
    /\ NoWrite

\* add_task: the blank check comes first, then len(self.tasks) raises.
add_task_on_int(task_description) ==
    IF Len(strip(task_description)) = 0
    THEN IntCall("add_task", task_description, "False", "empty_description")
    ELSE IntCall("add_task", task_description, "TypeError", "none")

\* remove_task: the parse comes first, then the scan of self.tasks raises.
remove_task_on_int(task_id) ==
    IF ~int(task_id).ok
    THEN IntCall("remove_task", task_id, "False", "invalid_id")
    ELSE IntCall("remove_task", task_id, "TypeError", "none")

mark_completed_on_int(task_id) ==
    IF ~int(task_id).ok
    THEN IntCall("mark_completed", task_id, "False", "invalid_id")
    ELSE IntCall("mark_completed", task_id, "TypeError", "none")

\* clear_completed iterates over self.tasks at once.
clear_completed_on_int == IntCall("clear_completed", <<>>, "TypeError", "none")

\* show_stats: "not self.tasks" is true of 0; len() of another int raises.
show_stats_on_int ==
    IF tasks_int = 0
    THEN IntCall("show_stats", <<>>, "None", "no_statistics")
    ELSE IntCall("show_stats", <<>>, "TypeError", "none")

view_tasks_on_int(show_completed) ==
    IF tasks_int = 0
    THEN IntCall("view_tasks", <<IF show_completed THEN "True" ELSE "False">>,
                 "None", "no_tasks")
    ELSE IntCall("view_tasks", <<IF show_completed THEN "True" ELSE "False">>,
                 "TypeError", "none")

\* view_pending_only iterates over self.tasks at once.
view_pending_only_on_int ==
    IntCall("view_pending_only", <<>>, "TypeError", "none")

\* The numbers whose text is a beginning of the text of n, n excepted: for
\* 105 they are 1 and 10, for -37 the number -3.
RECURSIVE CutNumbers(_)
CutNumbers(n) ==
    IF n > 0 - 10 /\ n < 10 THEN {}
    ELSE LET m == IF n < 0 THEN 0 - ((0 - n) \div 10) ELSE n \div 10
         IN  {m} \cup CutNumbers(m)

\* The backing file after a write of the number n that the disk failed:
\* as it was, empty, cut short to a shorter number, or to the sign alone,
\* which is not JSON.
FailedWriteInt(f, n) ==
    {f, [exists |-> TRUE, text |-> BlankText]}
    \cup {[exists |-> TRUE, text |-> NumberText(m)] : m \in CutNumbers(n)}
    \cup IF n < 0 THEN {[exists |-> TRUE, text |-> GarbageText]} ELSE {}

\* save_tasks: json.dump writes the number.
save_tasks_on_int ==
    /\ tasks_type = "int"
    /\ op' = "save_tasks"
    /\ arg' = <<>>
    /\ result' = "None"
    /\ msg' = Message("none", 0)
    /\ tasks0' = tasks
    /\ file0' = file
    /\ shown' = NoReport
    /\ UNCHANGED <<tasks, now, tasks_type, tasks_int>>
    /\ \/ /\ file' = [exists |-> TRUE, text |-> NumberText(tasks_int)]
          /\ disk' = disk
          /\ save_error' = FALSE
       \/ /\ disk > 0
          /\ file' \in FailedWriteInt(file, tasks_int)
          /\ disk' = disk - 1
          /\ save_error' = TRUE

\* The calls on a store that holds a list; the calls on a store that holds
\* an int; and a new start, which is all that is left when there is no store.
NextLoad ==
    \/ tasks_type = "list" /\ Next
    \/ tasks_type # "list" /\ (Restart \/ Tick) /\ UNCHANGED pc
    \/ \E d \in Descriptions : add_task_on_int(d) /\ UNCHANGED pc
    \/ \E t \in IdTexts : remove_task_on_int(t) /\ UNCHANGED pc
    \/ \E t \in IdTexts : mark_completed_on_int(t) /\ UNCHANGED pc
    \/ clear_completed_on_int /\ UNCHANGED pc
    \/ show_stats_on_int /\ UNCHANGED pc
    \/ \E b \in BOOLEAN : view_tasks_on_int(b) /\ UNCHANGED pc
    \/ view_pending_only_on_int /\ UNCHANGED pc
    \/ save_tasks_on_int /\ UNCHANGED pc

SpecLoad == InitLoad /\ [][NextLoad]_vars

-----------------------------------------------------------------------------
(* main: the menu loop around the store *)

\* The lines typed at the menu: "1" to "9", "0", " 1\t", a full-width "１"
\* and the empty line.
Choices ==
    {<<48 + n>> : n \in 0..9} \cup {<<32, 49, 9>>, <<65297>>, <<>>}

\* The choice main compares the stripped line with: the digit n.
Option(n) == <<48 + n>>

InputWaits == {"menu", "description", "complete_id", "remove_id"}

\* A step of main that makes no call on the store.
NoCall(name, text, kind) ==
    /\ op' = name
    /\ arg' = text
    /\ result' = "None"
    /\ msg' = Message(kind, 0)
    /\ tasks0' = tasks
    /\ file0' = file
    /\ shown' = NoReport
    /\ UNCHANGED <<tasks, now, tasks_type, tasks_int>>
    /\ NoWrite

\* A line is typed at the menu.
Choose(text) ==
    /\ pc = "menu"
    /\ LET choice == strip(text)
       IN  \/ /\ choice = Option(1)
              /\ NoCall("ask_description", <<>>, "none")
              /\ pc' = "description"
           \/ /\ choice = Option(2)
              /\ view_tasks(TRUE)
              /\ pc' = "menu"
           \/ /\ choice = Option(3)
              /\ view_pending_only
              /\ pc' = "menu"
           \/ /\ choice = Option(4)
              /\ view_pending_only
              /\ pc' = IF \E i \in 1..Len(tasks) : ~tasks[i]["completed"]
                       THEN "complete_id" ELSE "menu"
           \/ /\ choice = Option(5)
              /\ view_tasks(TRUE)
              /\ pc' = IF Len(tasks) > 0 THEN "remove_id" ELSE "menu"
           \/ /\ choice = Option(6)
              /\ clear_completed
              /\ pc' = "menu"
           \/ /\ choice = Option(7)
              /\ show_stats
              /\ pc' = "menu"
           \/ /\ choice = Option(8)
              /\ NoCall("show_help", <<>>, "help")
              /\ pc' = "menu"
           \/ /\ choice = Option(9)
              /\ NoCall("exit", <<>>, "goodbye")
              /\ pc' = "exited"
           \/ /\ choice \notin {Option(n) : n \in 1..9}
              /\ NoCall("invalid_choice", <<>>, "invalid_choice")
              /\ pc' = "menu"

\* A description is typed at the prompt of option 1.
EnterDescription(text) ==
    /\ pc = "description"
    /\ pc' = "menu"
    /\ LET task_desc == strip(text)
       IN  IF Len(task_desc) > 0
           THEN add_task(task_desc)
           ELSE NoCall("reject_description", text, "empty_description")

\* An id is typed at the prompt of option 4.
EnterCompleteId(text) ==
    /\ pc = "complete_id"
    /\ pc' = "menu"
    /\ mark_completed(strip(text))

\* An id is typed at the prompt of option 5.
EnterRemoveId(text) ==
    /\ pc = "remove_id"
    /\ pc' = "menu"
    /\ remove_task(strip(text))

\* An interrupt that is taken for an empty line: the loop goes on.
Interrupt_continues ==
    /\ pc \in InputWaits
    /\ NoCall("interrupt", <<pc>>, "goodbye")
    /\ pc' = "menu"

\* KeyboardInterrupt while input() waits: main says goodbye and leaves the
\* loop.
Interrupt ==
    /\ pc \in InputWaits
    /\ NoCall("interrupt", <<pc>>, "goodbye")
    /\ pc' = "exited"

\* KeyboardInterrupt inside the call made for the line typed, outside
\* save_tasks: before the call has changed or listed anything; while
\* view_tasks, view_pending_only or show_stats is listing; or in
\* mark_completed between its two assignments, the task completed and
\* without completed_at.  main says goodbye and leaves the loop.
InterruptInCall ==
    /\ pc \in InputWaits
    /\ op' = "interrupt_in_call"
    /\ arg' = <<pc>>
    /\ result' = "None"
    /\ msg' = Message("goodbye", 0)
    /\ tasks0' = tasks
    /\ file0' = file
    /\ UNCHANGED <<now, tasks_type, tasks_int>>
    /\ NoWrite
    /\ pc' = "exited"
    /\ \/ /\ UNCHANGED tasks
          /\ shown' = NoReport
       \/ /\ pc = "menu"
          /\ UNCHANGED tasks
          /\ \E r \in {view_tasks_report(tasks, TRUE),
                        view_pending_only_report(tasks),
                        show_stats_report(tasks)} : shown' \in Partial(r)
       \/ /\ pc = "complete_id"
          /\ shown' = NoReport
          /\ \E text \in IdTexts :
                /\ int(strip(text)).ok
                /\ FindFirst(tasks, int(strip(text)).value) # 0
                /\ tasks' = [tasks EXCEPT
                                ![FindFirst(tasks, int(strip(text)).value)] =
                                    SetItem(@, "completed", TRUE)]

\* End of input (EOFError) while input() waits: main's guard for Exception
\* prints the error and the loop goes on, at the menu.
EndOfInput ==
    /\ pc \in InputWaits
    /\ NoCall("end_of_input", <<pc>>, "error")
    /\ pc' = "menu"

\* KeyboardInterrupt while show_menu prints, outside the try of the loop:
\* nothing catches it and the program ends with the traceback.
InterruptShowMenu ==
    /\ pc = "menu"
    /\ op' = "interrupt_show_menu"
    /\ arg' = <<>>
    /\ result' = "KeyboardInterrupt"
    /\ msg' = Message("none", 0)
    /\ tasks0' = tasks
    /\ file0' = file
    /\ shown' = NoReport
    /\ UNCHANGED <<tasks, now, tasks_type, tasks_int>>
    /\ NoWrite
    /\ pc' = "exited"

\* The backing file when KeyboardInterrupt ends save_tasks, which catches
\* Exception only: as it was (not opened yet), empty (opened), cut short
\* after what was written, or complete.
InterruptedWrite(f, ts) ==
    {f, [exists |-> TRUE, text |-> BlankText],
        [exists |-> TRUE, text |-> GarbageText], save_tasks(ts)}

\* KeyboardInterrupt inside save_tasks, ts being the list the call has
\* made: main says goodbye and leaves the loop.
Interrupted(name, text, ts) ==
    /\ op' = name
    /\ arg' = text
    /\ result' = "None"
    /\ msg' = Message("goodbye", 0)
    /\ tasks0' = tasks
    /\ file0' = file
    /\ shown' = NoReport
    /\ tasks' = ts
    /\ file' \in InterruptedWrite(file, ts)
    /\ save_error' = FALSE
    /\ UNCHANGED <<now, tasks_type, tasks_int, disk>>
    /\ pc' = "exited"

\* KeyboardInterrupt while the call made for the line typed is saving the
\* list: in add_task, mark_completed, remove_task or clear_completed.
InterruptInSave ==
    \/ /\ pc = "description"
       /\ \E text \in Descriptions :
            /\ Len(strip(text)) > 0
            /\ Len(tasks) < MaxTasks
            /\ Interrupted("interrupt_add_task", strip(text),
                           Append(tasks, NewTask(Len(tasks), strip(text), now)))
    \/ /\ pc = "complete_id"
       /\ \E text \in IdTexts :
            /\ int(strip(text)).ok
            /\ FindFirst(tasks, int(strip(text)).value) # 0
            /\ Interrupted("interrupt_mark_completed", strip(text),
                           [tasks EXCEPT ![FindFirst(tasks, int(strip(text)).value)] =
                               Completed(@, now)])
    \/ /\ pc = "remove_id"
       /\ \E text \in IdTexts :
            /\ int(strip(text)).ok
            /\ FindFirst(tasks, int(strip(text)).value) # 0
            /\ Interrupted("interrupt_remove_task", strip(text),
                           Pop(tasks, FindFirst(tasks, int(strip(text)).value)))
    \/ /\ pc = "menu"
       /\ Len(SelectSeq(tasks, IsCompleted)) > 0
       /\ Interrupted("interrupt_clear_completed", <<>>,
                      SelectSeq(tasks, IsPending))

NextMain ==
    \/ \E choice \in Choices : Choose(choice)
    \/ \E d \in Descriptions : EnterDescription(d)
    \/ \E t \in IdTexts : EnterCompleteId(t)
    \/ \E t \in IdTexts : EnterRemoveId(t)
    \/ Interrupt
    \/ InterruptShowMenu
    \/ InterruptInCall
    \/ InterruptInSave
    \/ EndOfInput
    \/ pc \in InputWaits /\ Tick /\ UNCHANGED pc

SpecMain == Init /\ [][NextMain]_vars

-----------------------------------------------------------------------------
(* Vocabulary of the properties *)

HasCompletedAt(task) == "completed_at" \in DOMAIN task

\* The text d is empty or all whitespace.
Blank(d) == \A i \in 1..Len(d) : d[i] \in Whitespace

\* r is d without the whitespace before its first and after its last
\* character that is not whitespace.
TrimOf(d, r) ==
    \E i \in 1..Len(d) : \E j \in i..Len(d) :
        /\ r = SubSeq(d, i, j)
        /\ d[i] \notin Whitespace
        /\ d[j] \notin Whitespace
        /\ \A k \in 1..(i - 1) : d[k] \in Whitespace
        /\ \A k \in (j + 1)..Len(d) : d[k] \in Whitespace

\* The text writes an integer: between whitespace, an optional sign and then
\* digits, the first and the last character a digit and every underscore
\* between them followed by a digit, the digits no more than MaxStrDigits.
IntegerLiteral(s) ==
    \E a \in 1..Len(s) : \E b \in a..Len(s) :
        /\ \A k \in 1..(a - 1) : s[k] \in IntWhitespace
        /\ \A k \in (b + 1)..Len(s) : s[k] \in IntWhitespace
        /\ LET c == IF s[a] \in {43, 45} THEN a + 1 ELSE a
           IN  /\ c <= b
               /\ IsDigit(s[c])
               /\ IsDigit(s[b])
               /\ \A k \in c..(b - 1) :
                    IsDigit(s[k]) \/ (s[k] = 95 /\ IsDigit(s[k + 1]))
               /\ Cardinality({k \in c..b : IsDigit(s[k])}) <= MaxStrDigits

NotInteger(s) == ~IntegerLiteral(s)

\* Some task of the list ts has the id the text names.
Matches(ts, text) ==
    /\ int(text).ok
    /\ \E i \in 1..Len(ts) : ts[i].id = int(text).value

\* Position k holds the first task of ts whose id the text names.
FirstMatch(ts, text, k) ==
    /\ k \in 1..Len(ts)
    /\ ts[k].id = int(text).value
    /\ \A j \in 1..(k - 1) : ts[j].id # int(text).value

\* The call that has just returned was entered on a list with two tasks that
\* share an id and differ otherwise.
TwinsAtEntry ==
    /\ Len(tasks0) = 2
    /\ tasks0[1].id = tasks0[2].id
    /\ tasks0[1] # tasks0[2]

\* The tasks of ts at the positions in keep, in the order of ts.
Kept(ts, keep) ==
    [i \in 1..Cardinality(keep) |->
        ts[CHOOSE k \in keep : Cardinality({m \in keep : m < k}) = i - 1]]

PendingPositions(ts) == {i \in 1..Len(ts) : ~ts[i]["completed"]}
CompletedPositions(ts) == {i \in 1..Len(ts) : ts[i]["completed"]}

\* r, in tenths of a percent, is within half a tenth of completed / total * 100.
IsRate(r, completed, total) ==
    /\ 2 * (r * total - 1000 * completed) <= total
    /\ 2 * (1000 * completed - r * total) <= total

ReadCalls == {"show_stats", "view_tasks", "view_pending_only"}

\* The fields of a task that say which task it is.
Identity(task) == <<task["id"], task["description"], task["created_at"]>>

\* Every task of ts has its position as its id.
Positional(ts) == \A k \in 1..Len(ts) : ts[k]["id"] = k

-----------------------------------------------------------------------------
(* Properties *)

\* C1: in every reachable state no two tasks present in the task list have
\* the same id.
C1_UniqueIds ==
    \A i \in 1..Len(tasks) : \A j \in 1..Len(tasks) :
        i # j => tasks[i].id # tasks[j].id

\* C2: after every call (successful or failed), loading the backing file
\* gives the in-memory task list.
C2_FileMatchesMemory == load_tasks(file) = tasks

C2_Witness ==
    /\ op = "clear_completed"
    /\ Len(tasks0) = 2
    /\ Len(tasks) = 1
    /\ file # file0

\* C3: saving the task list with no fault of the disk and loading the saved
\* file in a new store gives the same tasks in the same order with the same
\* keys and values.
C3_RoundTrip == load_tasks(save_tasks(tasks)) = tasks

\* C4: add_task with a description that is not blank returns True and
\* appends one task: description trimmed, not completed, no completed_at, id
\* the previous length plus 1; the tasks before it are as they were.
C4_AddAppends ==
    (op = "add_task" /\ ~Blank(arg)) =>
        /\ result = "True"
        /\ Len(tasks) = Len(tasks0) + 1
        /\ SubSeq(tasks, 1, Len(tasks0)) = tasks0
        /\ TrimOf(arg, tasks[Len(tasks)]["description"])
        /\ tasks[Len(tasks)]["completed"] = FALSE
        /\ ~HasCompletedAt(tasks[Len(tasks)])
        /\ tasks[Len(tasks)]["id"] = Len(tasks0) + 1

C4_Witness ==
    /\ op = "add_task"
    /\ result = "True"
    /\ arg = <<9, 233, 10>>
    /\ Len(tasks0) = 1
    /\ tasks0[1]["completed"]

\* C5: add_task with an empty or all-whitespace description returns False
\* and leaves the task list and the backing file as they were.
C5_AddBlankRejected ==
    (op = "add_task" /\ Blank(arg)) =>
        /\ result = "False"
        /\ tasks = tasks0
        /\ file = file0

C5_Witness ==
    /\ op = "add_task"
    /\ arg = <<32, 9>>
    /\ result = "False"
    /\ Len(tasks) = 1

\* C6: remove_task with an id some task has returns True and removes the
\* first task with that id: the list is one shorter, the tasks before it and
\* after it are as they were, in the same order.
C6_RemoveFirstMatch ==
    (op = "remove_task" /\ Matches(tasks0, arg)) =>
        /\ result = "True"
        /\ Len(tasks) = Len(tasks0) - 1
        /\ \E k \in 1..Len(tasks0) :
            /\ FirstMatch(tasks0, arg, k)
            /\ \A i \in 1..(k - 1) : tasks[i] = tasks0[i]
            /\ \A i \in k..Len(tasks) : tasks[i] = tasks0[i + 1]

C6_Witness ==
    /\ op = "remove_task"
    /\ result = "True"
    /\ TwinsAtEntry
    /\ tasks = <<tasks0[2]>>

\* C7: remove_task and mark_completed with an integer id no task has return
\* False, report that no task was found, and leave the task list and the
\* backing file as they were.
C7_NotFound ==
    (op \in {"remove_task", "mark_completed"} /\ int(arg).ok
        /\ ~Matches(tasks0, arg)) =>
        /\ result = "False"
        /\ msg = Message("not_found", int(arg).value)
        /\ tasks = tasks0
        /\ file = file0

\* add, add, complete(1), then remove(99): it failed and two tasks are left.
C7_Witness ==
    /\ op = "remove_task"
    /\ arg = <<43, 57, 57>>
    /\ result = "False"
    /\ Len(tasks) = 2
    /\ tasks[1]["id"] = 1 /\ tasks[1]["completed"]
    /\ tasks[2]["id"] = 2 /\ ~tasks[2]["completed"]

\* C8: remove_task and mark_completed with a text that is not an integer
\* return False, report an invalid id, and leave the task list and the
\* backing file as they were.
C8_InvalidId ==
    (op \in {"remove_task", "mark_completed"} /\ NotInteger(arg)) =>
        /\ result = "False"
        /\ msg = Message("invalid_id", 0)
        /\ tasks = tasks0
        /\ file = file0

C8_Witness ==
    /\ op = "mark_completed"
    /\ arg = <<120>>
    /\ result = "False"
    /\ Len(tasks) = 2

\* C9: mark_completed with an id some task has returns True and leaves the
\* first task with that id completed, with completed_at the time of the
\* call, also when that task was completed already.
C9_CompleteSets ==
    (op = "mark_completed" /\ Matches(tasks0, arg)) =>
        /\ result = "True"
        /\ Len(tasks) = Len(tasks0)
        /\ \E k \in 1..Len(tasks0) :
            /\ FirstMatch(tasks0, arg, k)
            /\ tasks[k]["completed"] = TRUE
            /\ HasCompletedAt(tasks[k])
            /\ tasks[k]["completed_at"] = now

\* The second completion of a task, a second later than the first.
C9_Witness ==
    /\ op = "mark_completed"
    /\ result = "True"
    /\ \E k \in 1..Len(tasks0) :
        /\ FirstMatch(tasks0, arg, k)
        /\ tasks0[k]["completed"]
        /\ tasks0[k]["completed_at"] # tasks[k]["completed_at"]

\* C10: a task has completed_at exactly when it is completed, and a step
\* leaves every completed task that stays in the list completed, with
\* completed_at present: a step that removes no task keeps positions, a step
\* that removes tasks keeps the others as they were.
C10_CompletedStays ==
    /\ \A i \in 1..Len(tasks) : HasCompletedAt(tasks[i]) <=> tasks[i]["completed"]
    /\ Len(tasks) >= Len(tasks0) =>
        \A i \in 1..Len(tasks0) :
            tasks0[i]["completed"] =>
                tasks[i]["completed"] /\ HasCompletedAt(tasks[i])
    /\ Len(tasks) < Len(tasks0) =>
        \E keep \in SUBSET (1..Len(tasks0)) :
            /\ Cardinality(keep) = Len(tasks)
            /\ \A i \in 1..Len(tasks) :
                LET from == CHOOSE k \in keep :
                                Cardinality({m \in keep : m < k}) = i - 1
                IN  tasks[i] = tasks0[from]

\* A completed task survives the removal of the task before it.
C10_Witness ==
    /\ op = "remove_task"
    /\ result = "True"
    /\ Len(tasks0) = 2
    /\ tasks0[2]["completed"]
    /\ tasks = <<tasks0[2]>>

\* C11 as stated: clear_completed returns the number of tasks it removed.
C11_ReturnsCount ==
    op = "clear_completed" => result = ToString(Len(tasks0) - Len(tasks))

\* C11, amended: clear_completed leaves exactly the pending tasks, as they
\* were and in their order, returns None and prints the number of tasks
\* removed, or that there is nothing to clear (writing no file) when no task
\* was completed; a clear_completed right after a clear_completed removes
\* nothing and prints that there is nothing to clear.
C11_ClearRemovesCompleted ==
    /\ [](op = "clear_completed" =>
            /\ result = "None"
            /\ tasks = Kept(tasks0, PendingPositions(tasks0))
            /\ IF CompletedPositions(tasks0) = {}
               THEN msg = Message("nothing_to_clear", 0) /\ file = file0
               ELSE msg = Message("cleared", Cardinality(CompletedPositions(tasks0))))
    /\ [][(op = "clear_completed" /\ op' = "clear_completed") =>
            /\ tasks' = tasks
            /\ file' = file
            /\ msg' = Message("nothing_to_clear", 0)]_vars

\* A completed task is cleared from between two pending ones, or before one.
C11_Witness ==
    /\ op = "clear_completed"
    /\ msg = Message("cleared", 1)
    /\ Len(tasks0) = 2
    /\ tasks0[1]["completed"]
    /\ tasks = <<tasks0[2]>>

\* C12 as stated: show_stats reports total, completed, pending and the rate,
\* all four 0 on an empty store.
C12_StatsWithZeros ==
    op = "show_stats" =>
        /\ Len(shown.stats) = 4
        /\ shown.stats[1] = Len(tasks)
        /\ shown.stats[2] = Cardinality(CompletedPositions(tasks))
        /\ shown.stats[3] = shown.stats[1] - shown.stats[2]
        /\ IF Len(tasks) = 0 THEN shown.stats[4] = 0
           ELSE IsRate(shown.stats[4], shown.stats[2], shown.stats[1])

\* C12, amended: on a store that is not empty show_stats reports total,
\* completed, pending = total - completed and the rate completed / total *
\* 100 to one decimal; on an empty store it reports only that no tasks are
\* available, and no numbers.
C12_Stats ==
    op = "show_stats" =>
        IF Len(tasks) = 0
        THEN msg = Message("no_statistics", 0) /\ shown.stats = <<>>
        ELSE /\ msg = Message("statistics", 0)
             /\ Len(shown.stats) = 4
             /\ shown.stats[1] = Len(tasks)
             /\ shown.stats[2] = Cardinality(CompletedPositions(tasks))
             /\ shown.stats[3] = shown.stats[1] - shown.stats[2]
             /\ IsRate(shown.stats[4], shown.stats[2], shown.stats[1])

\* add, add, complete(1), then show_stats: 2, 1, 1 and 50.0.
C12_Witness ==
    /\ op = "show_stats"
    /\ Len(tasks) = 2
    /\ tasks[1]["id"] = 1 /\ tasks[1]["completed"]
    /\ tasks[2]["id"] = 2 /\ ~tasks[2]["completed"]
    /\ shown.stats = <<2, 1, 1, 500>>

\* C13: show_stats, view_tasks and view_pending_only leave the task list as
\* it was and do not write the backing file.
C13_ReadsChangeNothing ==
    op \in ReadCalls =>
        /\ tasks = tasks0
        /\ file = file0
        /\ ~save_error

\* A list of one pending and one completed task has been shown.
C13_Witness ==
    /\ op = "view_tasks"
    /\ Len(shown.pending) = 1
    /\ Len(shown.completed) = 1

\* C14: load_tasks raises nothing and leaves a list in the store whatever
\* the backing file holds, an empty one unless the file holds a saved array
\* of tasks.
C14_LoadGivesList ==
    op = "init" =>
        /\ result = "None"
        /\ tasks_type = "list"
        /\ (~file.exists \/ file.text.kind # "array") => tasks = <<>>

\* C15: when the write of the file fails inside a call, the call reports
\* success all the same and its change of the list is kept; and every call
\* works on the list in memory, whatever the file holds: the id of a new
\* task, the outcome of remove_task and mark_completed and the total of
\* show_stats follow the list the call was entered with.
C15_WriteFailureKeepsMemory ==
    /\ save_error =>
        /\ op = "add_task" =>
            /\ result = "True" /\ msg.kind = "added"
            /\ Len(tasks) = Len(tasks0) + 1
            /\ TrimOf(arg, tasks[Len(tasks)]["description"])
        /\ op = "remove_task" =>
            /\ result = "True" /\ msg.kind = "removed"
            /\ Len(tasks) = Len(tasks0) - 1
        /\ op = "mark_completed" =>
            /\ result = "True" /\ msg.kind = "completed"
            /\ \E k \in 1..Len(tasks0) :
                FirstMatch(tasks0, arg, k) /\ tasks[k]["completed"]
        /\ op = "clear_completed" =>
            /\ result = "None" /\ msg.kind = "cleared"
            /\ tasks = Kept(tasks0, PendingPositions(tasks0))
            /\ Len(tasks) < Len(tasks0)
    /\ (op = "add_task" /\ ~Blank(arg)) =>
            tasks[Len(tasks)]["id"] = Len(tasks0) + 1
    /\ (op \in {"remove_task", "mark_completed"}) =>
            (result = "True" <=> Matches(tasks0, arg))
    /\ (op = "show_stats" /\ Len(tasks0) > 0) => shown.stats[1] = Len(tasks0)

\* The write failed inside a remove_task on a list of two: the task is gone
\* from the list and the file does not hold the list.
C15_Witness ==
    /\ save_error
    /\ op = "remove_task"
    /\ result = "True"
    /\ Len(tasks0) = 2
    /\ Len(tasks) = 1
    /\ load_tasks(file) # tasks

\* C16: an interrupt while main waits for input ends the loop, changes no
\* task and leaves the backing file as it was, holding the list the last
\* call left.
C16_InterruptExits ==
    op = "interrupt" =>
        /\ pc = "exited"
        /\ tasks = tasks0
        /\ file = file0
        /\ load_tasks(file) = tasks

\* The interrupt came at the prompt for the id to remove, with two tasks.
C16_Witness ==
    /\ op = "interrupt"
    /\ arg = <<"remove_id">>
    /\ pc = "exited"
    /\ Len(tasks) = 2

\* C17: a task keeps its id, description and created_at while it is in the
\* list; the list grows only in add_task and shrinks only in remove_task and
\* clear_completed, which leave the tasks they keep as they were; and
\* mark_completed changes no task but the first with the id, of which it
\* changes only completed and completed_at; no other call changes the list.
C17_Lifecycle ==
    /\ Len(tasks) > Len(tasks0) => op = "add_task"
    /\ Len(tasks) < Len(tasks0) =>
        /\ op \in {"remove_task", "clear_completed"}
        /\ \E keep \in SUBSET (1..Len(tasks0)) : tasks = Kept(tasks0, keep)
    /\ Len(tasks) >= Len(tasks0) =>
        \A i \in 1..Len(tasks0) : Identity(tasks[i]) = Identity(tasks0[i])
    /\ op = "mark_completed" =>
        /\ Len(tasks) = Len(tasks0)
        /\ \A i \in 1..Len(tasks) :
            \/ tasks[i] = tasks0[i]
            \/ /\ FirstMatch(tasks0, arg, i)
               /\ DOMAIN tasks[i] = DOMAIN tasks0[i] \cup {"completed_at"}
    /\ op \notin {"add_task", "remove_task", "clear_completed", "mark_completed"}
        => tasks = tasks0

\* The first of two tasks is completed a second after it was created.
C17_Witness ==
    /\ op = "mark_completed"
    /\ result = "True"
    /\ Len(tasks0) = 2
    /\ tasks[1] # tasks0[1]
    /\ tasks[1]["completed_at"] # tasks[1]["created_at"]
    /\ tasks[2] = tasks0[2]

\* C18: right after a remove_task that returned True no task of the list has
\* the id that was removed.
C18_RemovedIdGone ==
    (op = "remove_task" /\ result = "True") =>
        \A i \in 1..Len(tasks) : tasks[i]["id"] # int(arg).value

\* C19: a call that removes no task from a list in which every task has its
\* position as its id leaves such a list; the empty store a run starts from
\* is one, so the ids are 1..n until a task is removed.
C19_IdsArePositions ==
    (Positional(tasks0) /\ Len(tasks) >= Len(tasks0)) => Positional(tasks)

\* Two tasks with the ids 1 and 2 after a mark_completed that found no task.
C19_Witness ==
    /\ op = "mark_completed"
    /\ result = "False"
    /\ Len(tasks) = 2
    /\ Positional(tasks0)
    /\ tasks[2]["id"] = 2
====
